---------------------------- MODULE Spec2Model ----------------------------
(***************************************************************************)
(* Tenant-scoped authorization and onboarding of the aptix performance-    *)
(* review application: the relational store (clients, client_email_domains,*)
(* auth.users, profiles, areas, area_permissions, invitations), the        *)
(* handle_new_user trigger, the row-level-security policies, and the       *)
(* browser-side handlers of the Auth page and the administration pages.    *)
(*                                                                         *)
(* Every `await` of a handler is an interleaving point: a handler is one   *)
(* action per request it sends, and the requests of different browser      *)
(* tabs interleave freely.  Text is modelled as a sequence of one-character*)
(* strings so that split_part, lower, initcap and replace are computed.    *)
(***************************************************************************)
EXTENDS Naturals, Integers, Sequences, FiniteSets, TLC

(***************************************************************************)
(* Bounds of the model.                                                    *)
(***************************************************************************)
MaxClients == 3
MaxUsers == 4
MaxPermissions == 3
MaxInvitations == 1
MaxTime == 2

(***************************************************************************)
(* Program constants.                                                      *)
(***************************************************************************)
\* expires_at DEFAULT now() + interval '7 days'; the clock counts periods of 7 days
InvitationExpiry == 1

\* SQL NULL / JavaScript null in a column of ids or timestamps, and in a text column
NULL == 0 - 1
NoText == "null"

(***************************************************************************)
(* Text.                                                                   *)
(***************************************************************************)
LowerChar(c) ==
  CASE c = "A" -> "a"
    [] c = "B" -> "b"
    [] c = "C" -> "c"
    [] OTHER -> c

UpperChar(c) ==
  CASE c = "a" -> "A"
    [] c = "b" -> "B"
    [] c = "c" -> "C"
    [] OTHER -> c

IsAlnum(c) == c \in {"a", "b", "c", "d", "e", "i", "m", "n", "o", "s", "t", "x", "y",
                     "A", "B", "C", "I"}

\* lower(text) / String.prototype.toLowerCase()
Lower(s) == [i \in 1..Len(s) |-> LowerChar(s[i])]

\* initcap(text): the first letter of each word in upper case, the rest in
\* lower case; words are runs of alphanumeric characters.
Initcap(s) ==
  [i \in 1..Len(s) |->
     IF i = 1 \/ ~IsAlnum(s[i - 1]) THEN UpperChar(s[i]) ELSE LowerChar(s[i])]

\* replace(text, from, to) for one-character from and to
Replace(s, from, to) == [i \in 1..Len(s) |-> IF s[i] = from THEN to ELSE s[i]]

\* The positions of the separator in s.
SepPositions(s, sep) == {i \in 1..Len(s) : s[i] = sep}

\* split_part(text, sep, n) / text.split(sep)[n - 1]: the n-th field of s,
\* the empty text when s has fewer fields.
SplitPart(s, sep, n) ==
  LET P == SepPositions(s, sep)
      \* the position of the k-th separator, 0 for k = 0, Len(s) + 1 past the last
      Pos(k) == IF k = 0 THEN 0
                ELSE IF k > Cardinality(P) THEN Len(s) + 1
                ELSE CHOOSE i \in P : Cardinality({j \in P : j < i}) = k - 1
  IN IF n > Cardinality(P) + 1 THEN << >>
     ELSE SubSeq(s, Pos(n - 1) + 1, Pos(n) - 1)

InSuffix == <<" ", "I", "n", "c", ".">>

(***************************************************************************)
(* The texts the model draws its inputs from.                              *)
(***************************************************************************)
AdminCom == <<"a", "d", "m", "i", "n", ".", "c", "o">>
SystemAdminSlug == <<"s", "y", "s", "t", "e", "m", "-", "a", "d", "m", "i", "n">>
SystemAdminName == <<"S", "y", "s", "t", "e", "m", " ", "A", "d", "m", "i", "n">>

DomAC == <<"a", "b", ".", "c", "o">>   \* ab.co
DomAO == <<"a", "b", ".", "i", "o">>   \* ab.io: the same first label as ab.co
DomAU == <<"A", "B", ".", "c", "o">>   \* AB.co: ab.co in upper case
DomX  == <<"x", "y", ".", "c", "o">>   \* xy.co

At(local, dom) == <<local, "@">> \o dom


(***************************************************************************)
(* State: the tables of the store, the clock, and the browser tabs.        *)
(***************************************************************************)
VARIABLES
  clients,      \* public.clients: [id, name, slug], slug UNIQUE
  domains,      \* public.client_email_domains: [client, domain], UNIQUE(client, domain)
  users,        \* auth.users: [id, email], email unique
  profiles,     \* public.profiles: [id, client, area, email, role], id PRIMARY KEY
  areas,        \* public.areas: [id, client]
  areaPerms,    \* public.area_permissions: [area, user, level, grantedBy], UNIQUE(area, user)
  invitations,  \* public.invitations: [id, client, invitedBy, email, type, area, token, expiresAt, usedAt]
  now,          \* the clock, in periods of 7 days
  stab,         \* Auth page without ?invite: per tab, the company sign-up form
  itab,         \* Auth page with ?invite=token: per tab, the invited sign-up
  resp,         \* the last request of an administration page: who sent it, its answer
  rewrite       \* the statement whose row security policies are being expanded

vars == <<clients, domains, users, profiles, areas, areaPerms, invitations,
          now, stab, itab, resp, rewrite>>

tables == <<clients, domains, users, profiles, areas, areaPerms, invitations>>

\* No statement is being planned.
NoRewrite == [pc |-> "idle", rel |-> "none", cmd |-> "none", active |-> << >>,
              todo |-> << >>, lookups |-> {}]

Tabs == {1, 2}

UserRole == {"super_admin", "client_admin", "area_admin", "user"}

(***************************************************************************)
(* The security-definer helpers of the policies.                           *)
(***************************************************************************)
\* SELECT role FROM profiles WHERE id = user_id
get_user_role(uid) ==
  IF \E p \in profiles : p.id = uid
  THEN (CHOOSE p \in profiles : p.id = uid).role
  ELSE NoText

\* SELECT client_id FROM profiles WHERE id = user_id
get_user_client_id(uid) ==
  IF \E p \in profiles : p.id = uid
  THEN (CHOOSE p \in profiles : p.id = uid).client
  ELSE NULL

\* EXISTS (SELECT 1 FROM area_permissions WHERE user_id = $1 AND area_id = $2
\*         AND permission_level = 'admin')
is_user_area_admin(uid, area) ==
  \E ap \in areaPerms : ap.user = uid /\ ap.area = area /\ ap.level = "admin"

\* SELECT ARRAY_AGG(area_id) FROM area_permissions WHERE user_id = $1 AND
\* permission_level = 'admin'
get_user_area_admin_areas(uid) ==
  {ap.area : ap \in {q \in areaPerms : q.user = uid /\ q.level = "admin"}}

(***************************************************************************)
(* gen_random_uuid(): the model numbers the rows of a table as they come.  *)
(***************************************************************************)
NewClientId == Cardinality(clients) + 1
NewUserId == Cardinality(users) + 1

(***************************************************************************)
(* The trigger on auth.users: handle_new_user.  The result is the tables   *)
(* the trigger leaves, or raised = TRUE when one of its inserts violates a *)
(* constraint (the sign-up transaction is then rolled back).               *)
(***************************************************************************)
CompanyNameFor(user_domain, company) ==
  IF company = << >>      \* company_name IS NULL OR company_name = ''
  THEN Initcap(SplitPart(user_domain, ".", 1)) \o InSuffix
  ELSE company

SlugFor(user_domain) == Lower(Replace(SplitPart(user_domain, ".", 1), " ", "-"))

\* the constraint clients.slug UNIQUE
SlugTaken(slug) == \E c \in clients : c.slug = slug

handle_new_user(uid, email, company) ==
  LET user_domain == SplitPart(email, "@", 2)
      matching == {d \in domains : d.domain = user_domain}
      cid == NewClientId
  IN IF matching # {}
     THEN [raised |-> FALSE, clients |-> clients, domains |-> domains,
           profiles |-> profiles]
     ELSE IF SlugTaken(SlugFor(user_domain))
     THEN [raised |-> TRUE, clients |-> clients, domains |-> domains,
           profiles |-> profiles]
     ELSE [raised |-> FALSE,
           clients |-> clients \cup
             {[id |-> cid, name |-> CompanyNameFor(user_domain, company),
               slug |-> SlugFor(user_domain)]},
           domains |-> domains \cup {[client |-> cid, domain |-> user_domain]},
           profiles |-> profiles \cup
             {[id |-> uid, client |-> cid, area |-> NULL, email |-> email,
               role |-> "client_admin"]}]

(***************************************************************************)
(* supabase.auth.signUp: one transaction that inserts the auth.users row   *)
(* and runs the trigger.  An address that is registered already, or a      *)
(* trigger that raises, leaves the store as it was and returns an error.   *)
(***************************************************************************)
\* auth.users without the uniqueness of the address.
EmailRegistered_Never(email) == FALSE
EmailRegistered(email) == \E u \in users : u.email = email

signUp(email, company) ==
  LET uid == NewUserId
      t == handle_new_user(uid, email, company)
  IN IF EmailRegistered(email) \/ t.raised
     THEN [error |-> TRUE, id |-> NULL, users |-> users, clients |-> clients,
           domains |-> domains, profiles |-> profiles]
     ELSE [error |-> FALSE, id |-> uid,
           users |-> users \cup {[id |-> uid, email |-> email]},
           clients |-> t.clients, domains |-> t.domains, profiles |-> t.profiles]

(***************************************************************************)
(* Row-level security of clients and client_email_domains.  A policy       *)
(* FOR ALL without WITH CHECK applies its USING expression to the new row. *)
(***************************************************************************)
\* "Super admins can manage all clients"
ClientsWriteAllowed(uid) == get_user_role(uid) = "super_admin"

\* "Super admins can manage all email domains",
\* "Client admins can manage their client's email domains"
DomainsWriteAllowed(uid, row) ==
  \/ get_user_role(uid) = "super_admin"
  \/ (row.client = get_user_client_id(uid) /\ get_user_role(uid) = "client_admin")

(***************************************************************************)
(* Inputs of the company sign-up and of the super-admin page.              *)
(***************************************************************************)
RootEmail == At("r", AdminCom)

SignupEmails == {At("u", DomAC), At("v", DomAC), At("u", DomAO), At("u", DomAU)}

CompanyNames == {<< >>, <<"Z", "e", "d">>}

DomainInputs == {DomAC, DomAU}

ClientForms == {[name |-> <<"X", "y">>, slug |-> <<"X", " ", " ", "y">>]}

\* data.slug.toLowerCase().replace(/\s+/g, '-'): every run of white space
\* becomes one hyphen.
ReplaceRuns(s) ==
  LET keep == {i \in 1..Len(s) : ~(s[i] = " " /\ i > 1 /\ s[i - 1] = " ")}
      Nth(k) == CHOOSE i \in keep : Cardinality({j \in keep : j < i}) = k - 1
  IN [k \in 1..Cardinality(keep) |-> IF s[Nth(k)] = " " THEN "-" ELSE s[Nth(k)]]

NoResp == [op |-> "none", actor |-> NULL, ok |-> FALSE, rows |-> {}]

(***************************************************************************)
(* Auth page, company sign-up (no invitation).                             *)
(***************************************************************************)
\* The visitor types an address: watchedEmail changes.
TypeEmail(t, e) ==
  /\ stab[t].pc = "form"
  /\ stab[t].email # e
  /\ stab' = [stab EXCEPT ![t].email = e]
  /\ UNCHANGED <<rewrite, tables, now, itab, resp>>

\* checkEmailDomain: the query on client_email_domains for the domain typed.
\* maybeSingle() fails on more than one row, and the state is then kept.
DomainRows(domain) == {d \in domains : d.domain = domain}

checkEmailDomain(t) ==
  LET watched == stab[t].email
      domain == SplitPart(watched, "@", 2)
      rows == DomainRows(domain)
  IN /\ stab[t].pc = "form"
     /\ IF watched = << >> \/ SepPositions(watched, "@") = {}
        THEN stab' = [stab EXCEPT ![t].exists = FALSE]
        ELSE IF domain = << >> \/ Cardinality(rows) > 1
        THEN stab' = stab
        ELSE stab' = [stab EXCEPT ![t].exists = (rows # {})]
     /\ UNCHANGED <<rewrite, tables, now, itab, resp>>

\* The address as auth.users keeps it.  The auth server is not part of the
\* repository: it stores the address as sent or in lower case, and nothing
\* in the page or in the trigger changes the case.
StoredAs(email) == {email, Lower(email)}

\* handleCompanySignUp: refused in the browser when the passwords differ or
\* the domain was seen to exist; otherwise signUp with the company name.
handleCompanySignUp(t, company, passwordsMatch) ==
  \E stored \in StoredAs(stab[t].email) :
  LET r == signUp(stored, company)
  IN /\ stab[t].pc = "form"
     /\ stab[t].email # << >>
     /\ (Cardinality(users) < MaxUsers \/ EmailRegistered(stored))
     /\ IF ~passwordsMatch
        THEN /\ stab' = [stab EXCEPT ![t].pc = "done", ![t].outcome = "password"]
             /\ UNCHANGED tables
        ELSE IF stab[t].exists
        THEN /\ stab' = [stab EXCEPT ![t].pc = "done", ![t].outcome = "domain_exists"]
             /\ UNCHANGED tables
        ELSE /\ stab' = [stab EXCEPT ![t].pc = "done",
                                     ![t].outcome = IF r.error THEN "error" ELSE "ok",
                                     ![t].company = company]
             /\ users' = r.users
             /\ clients' = r.clients
             /\ domains' = r.domains
             /\ profiles' = r.profiles
             /\ UNCHANGED <<rewrite, areas, areaPerms, invitations>>
     /\ UNCHANGED <<rewrite, now, itab, resp>>

(***************************************************************************)
(* Super-admin page.                                                       *)
(***************************************************************************)
\* handleCreateClient: insert into clients (name, slug)
handleCreateClient(actor, form) ==
  LET slug == ReplaceRuns(Lower(form.slug))
      ok == ClientsWriteAllowed(actor) /\ ~SlugTaken(slug)
  IN /\ Cardinality(clients) < MaxClients
     /\ clients' = IF ok
                   THEN clients \cup {[id |-> NewClientId, name |-> form.name, slug |-> slug]}
                   ELSE clients
     /\ resp' = [op |-> "createClient", actor |-> actor, ok |-> ok, rows |-> {}]
     /\ UNCHANGED <<rewrite, domains, users, profiles, areas, areaPerms, invitations,
                    now, stab, itab>>

\* handleCreateDomain: insert into client_email_domains (client_id, domain),
\* the domain in lower case; the only constraint is UNIQUE(client_id, domain).
handleCreateDomain(actor, clientId, domain) ==
  LET row == [client |-> clientId, domain |-> Lower(domain)]
      ok == DomainsWriteAllowed(actor, row) /\ row \notin domains
  IN /\ \E c \in clients : c.id = clientId
     /\ domains' = IF ok THEN domains \cup {row} ELSE domains
     /\ resp' = [op |-> "createDomain", actor |-> actor, ok |-> ok, rows |-> {}]
     /\ UNCHANGED <<rewrite, clients, users, profiles, areas, areaPerms, invitations,
                    now, stab, itab>>

(***************************************************************************)
(* The store after the migrations, with the platform's super admin.        *)
(***************************************************************************)
InitTables ==
  /\ clients = {[id |-> 1, name |-> SystemAdminName, slug |-> SystemAdminSlug]}
  /\ domains = {[client |-> 1, domain |-> AdminCom]}
  /\ users = {[id |-> 1, email |-> RootEmail]}
  /\ profiles = {[id |-> 1, client |-> 1, area |-> NULL, email |-> RootEmail,
                  role |-> "super_admin"]}
  /\ areas = {}
  /\ areaPerms = {}
  /\ invitations = {}

InitSTab == [t \in Tabs |-> [pc |-> "form", email |-> << >>, exists |-> FALSE,
                             outcome |-> "none", company |-> << >>]]

NoInvitation == [id |-> NULL, client |-> NULL, invitedBy |-> NULL, email |-> << >>,
                 type |-> NoText, area |-> NULL, token |-> NULL, expiresAt |-> NULL,
                 usedAt |-> NULL]

InitITab == [t \in Tabs |-> [pc |-> "idle", inv |-> NoInvitation, areas |-> {},
                             areaId |-> NULL, uid |-> NULL, at |-> NULL,
                             outcome |-> "none"]]

InitSignup ==
  /\ InitTables
  /\ now = 0
  /\ stab = InitSTab
  /\ itab = InitITab
  /\ resp = NoResp
  /\ rewrite = NoRewrite

NextSignup ==
  \/ \E t \in Tabs, e \in SignupEmails : TypeEmail(t, e)
  \/ \E t \in Tabs : checkEmailDomain(t)
  \/ \E t \in Tabs, c \in CompanyNames, pw \in BOOLEAN : handleCompanySignUp(t, c, pw)
  \/ \E p \in profiles, f \in ClientForms : handleCreateClient(p.id, f)
  \/ \E p \in profiles, c \in clients, d \in DomainInputs : handleCreateDomain(p.id, c.id, d)

SpecSignup == InitSignup /\ [][NextSignup]_vars

(***************************************************************************)
(* Row-level security of invitations, profiles (INSERT) and                *)
(* area_permissions (INSERT).  The permissive policies of a table are      *)
(* OR-ed; FOR ALL without WITH CHECK applies USING to the new row.         *)
(***************************************************************************)
\* The client admins' policy with an admin level on the row's area demanded.
InvitationsManageAllowed_WithAreaLevel(uid, row) ==
  \/ /\ row.client = get_user_client_id(uid)
     /\ get_user_role(uid) = "client_admin"
     /\ is_user_area_admin(uid, row.area)
  \/ get_user_role(uid) = "super_admin"

\* "Client admins can manage invitations in their client",
\* "Super admins can manage all invitations"
InvitationsManageAllowed(uid, row) ==
  \/ (row.client = get_user_client_id(uid) /\ get_user_role(uid) = "client_admin")
  \/ get_user_role(uid) = "super_admin"

\* The area admins' INSERT policy without is_user_area_admin.
InvitationsInsertAllowed_AnyArea(uid, row) ==
  \/ InvitationsManageAllowed(uid, row)
  \/ /\ row.type = "employee"
     /\ row.area # NULL
     /\ row.client = get_user_client_id(uid)

\* ... and "Area admins can create employee invitations in their areas"
InvitationsInsertAllowed(uid, row) ==
  \/ InvitationsManageAllowed(uid, row)
  \/ /\ row.type = "employee"
     /\ row.area # NULL
     /\ is_user_area_admin(uid, row.area)
     /\ row.client = get_user_client_id(uid)

(***************************************************************************)
(* InvitationManager: createInvitation.                                    *)
(***************************************************************************)
\* /^[^\s@]+@[^\s@]+\.[^\s@]+$/
EmailFormatOk(e) ==
  LET ats == SepPositions(e, "@")
      a == CHOOSE i \in ats : TRUE
  IN /\ Cardinality(ats) = 1
     /\ \A i \in 1..Len(e) : e[i] # " "
     /\ a > 1
     /\ \E i \in (a + 2)..(Len(e) - 1) : e[i] = "."

\* id: gen_random_uuid(), token: generate_invitation_token(): values that
\* neither a row nor an open page holds; the next number above them all.
NewInvitationId(rows) ==
  LET held == {0} \cup {i.id : i \in rows} \cup {itab[t].inv.id : t \in Tabs}
  IN 1 + (CHOOSE m \in held : \A x \in held : x <= m)

\* area_id as if '' were sent as null.
AreaIdAccepted_EmptyAsNull(type, selectedAreaId) == TRUE

\* area_id: selectedAreaId for an employee, which is '' when no area is
\* chosen: not a uuid, and the insert fails.
AreaIdAccepted(type, selectedAreaId) == type = "employee" => selectedAreaId # NULL

\* The loop over the addresses: the invitations after it.  The first address
\* that is malformed, or whose insert is refused, throws: the rows inserted
\* before it stay.
RECURSIVE CreateInvitations(_, _, _, _, _, _)
CreateInvitations(rows, emails, actor, type, selectedAreaId, today) ==
  IF emails = << >> THEN [rows |-> rows, thrown |-> FALSE]
  ELSE LET id == NewInvitationId(rows)
           row == [id |-> id, client |-> get_user_client_id(actor),
                   invitedBy |-> actor, email |-> Head(emails), type |-> type,
                   area |-> IF type = "employee" THEN selectedAreaId ELSE NULL,
                   token |-> id, expiresAt |-> today + InvitationExpiry,
                   usedAt |-> NULL]
           ok == /\ EmailFormatOk(Head(emails))
                 /\ AreaIdAccepted(type, selectedAreaId)
                 /\ InvitationsInsertAllowed(actor, row)
       IN IF ok
          THEN CreateInvitations(rows \cup {row}, Tail(emails), actor, type,
                                 selectedAreaId, today)
          ELSE [rows |-> rows, thrown |-> TRUE]

InviteEmails == {At("a", DomAC), At("p", DomX)}

InviteBatches == {<<e>> : e \in InviteEmails} \cup {<<At("a", DomAC), <<"b", "a", "d">>>>}

createInvitation(actor, emails, type, selectedAreaId) ==
  LET r == CreateInvitations(invitations, emails, actor, type, selectedAreaId, now)
  IN /\ Cardinality(r.rows) <= MaxInvitations
     /\ \A i \in r.rows : i.id <= MaxInvitations
     /\ invitations' = r.rows
     /\ resp' = [op |-> "createInvitation", actor |-> actor, ok |-> ~r.thrown,
                 rows |-> {}]
     /\ UNCHANGED <<rewrite, clients, domains, users, profiles, areas, areaPerms, now, stab, itab>>

\* 'placeholder@example.com'
PlaceholderEmail ==
  <<"p", "l", "a", "c", "e", "h", "o", "l", "d", "e", "r", "@",
    "e", "x", "a", "m", "p", "l", "e", ".", "c", "o", "m">>

\* createAndCopyInvitationLink (user management, "Copy Link"): one invitation
\* for the placeholder address; its type follows from the caller's role, its
\* area is the caller's own area when the caller is an area admin.
createAndCopyInvitationLink(actor) ==
  LET own == CHOOSE p \in profiles : p.id = actor
      id == NewInvitationId(invitations)
      invitationType == IF own.role = "client_admin" THEN "area_admin" ELSE "employee"
      row == [id |-> id, client |-> own.client, invitedBy |-> actor,
              email |-> PlaceholderEmail, type |-> invitationType,
              area |-> IF own.role = "area_admin" THEN own.area ELSE NULL,
              token |-> id, expiresAt |-> now + InvitationExpiry, usedAt |-> NULL]
      ok == InvitationsInsertAllowed(actor, row)
  IN /\ \E p \in profiles : p.id = actor
     /\ ok => (Cardinality(invitations) < MaxInvitations /\ id <= MaxInvitations)
     /\ invitations' = IF ok THEN invitations \cup {row} ELSE invitations
     /\ resp' = [op |-> "copyLink", actor |-> actor, ok |-> ok, rows |-> {}]
     /\ UNCHANGED <<rewrite, clients, domains, users, profiles, areas, areaPerms, now, stab, itab>>

\* deleteInvitation: delete from invitations where id = ?.  The rows that
\* no FOR ALL policy shows to the caller stay, and the request reports no
\* error for them.
deleteInvitation(actor, id) ==
  LET deleted == {i \in invitations : i.id = id /\ InvitationsManageAllowed(actor, i)}
  IN /\ invitations' = invitations \ deleted
     /\ resp' = [op |-> "deleteInvitation", actor |-> actor, ok |-> TRUE,
                 rows |-> deleted]
     /\ UNCHANGED <<rewrite, clients, domains, users, profiles, areas, areaPerms, now, stab, itab>>

(***************************************************************************)
(* Auth page with ?invite=token: validateInvitation at page load, then     *)
(* handleInviteSignUp, one action per request.  The page runs as a visitor *)
(* without a profile: no policy of the migrations at hand admits its       *)
(* writes, and the migrations are not complete, so each write of the page  *)
(* is either applied or refused by row-level security (admitted).          *)
(***************************************************************************)
\* select * from invitations where token = ? and used_at is null and
\* expires_at > now, .single()
PendingRows(token) ==
  {i \in invitations : i.token = token /\ i.usedAt = NULL /\ i.expiresAt > now}

validateInvitation(t, token) ==
  LET rows == PendingRows(token)
      data == CHOOSE i \in rows : TRUE
  IN /\ itab[t].pc = "idle"
     /\ IF Cardinality(rows) # 1
        THEN itab' = [itab EXCEPT ![t].pc = "done", ![t].outcome = "invalid_link"]
        ELSE itab' = [itab EXCEPT
               ![t].pc = "loaded",
               ![t].inv = data,
               ![t].areas = IF data.type = "area_admin"
                            THEN {a.id : a \in {b \in areas : b.client = data.client}}
                            ELSE {}]
     /\ UNCHANGED <<rewrite, tables, now, stab, resp>>

\* The domain query without its filter on the domain.
ClientDomainRows_AnyDomain(inv) == {d \in domains : d.client = inv.client}

\* select client_id from client_email_domains where domain = ? and
\* client_id = ?, .single()
ClientDomainRows(inv) ==
  {d \in domains : d.domain = SplitPart(inv.email, "@", 2) /\ d.client = inv.client}

\* handleInviteSignUp up to the answer of the domain query.  Every failure
\* returns with the form still on the page.
handleInviteSignUp(t, areaId, passwordsMatch) ==
  /\ itab[t].pc = "loaded"
  /\ IF ~passwordsMatch
     THEN itab' = [itab EXCEPT ![t].outcome = "password"]
     ELSE IF itab[t].inv.type = "area_admin" /\ areaId = NULL
     THEN itab' = [itab EXCEPT ![t].outcome = "area_required"]
     ELSE IF Cardinality(ClientDomainRows(itab[t].inv)) # 1
     THEN itab' = [itab EXCEPT ![t].outcome = "domain_mismatch", ![t].at = now,
                               ![t].areaId = areaId]
     ELSE itab' = [itab EXCEPT ![t].pc = "signup", ![t].outcome = "none",
                               ![t].at = now, ![t].areaId = areaId]
  /\ UNCHANGED <<rewrite, tables, now, stab, resp>>

\* signUp(invitation.email, ...): no company name
inviteSignUp(t) ==
  LET r == signUp(itab[t].inv.email, << >>)
  IN /\ itab[t].pc = "signup"
     /\ (Cardinality(users) < MaxUsers \/ EmailRegistered(itab[t].inv.email))
     /\ IF r.error
        THEN /\ itab' = [itab EXCEPT ![t].pc = "loaded", ![t].outcome = "signup_error"]
             /\ UNCHANGED tables
        ELSE /\ itab' = [itab EXCEPT ![t].pc = "getuser", ![t].uid = r.id]
             /\ users' = r.users
             /\ clients' = r.clients
             /\ domains' = r.domains
             /\ profiles' = r.profiles
             /\ UNCHANGED <<rewrite, areas, areaPerms, invitations>>
     /\ UNCHANGED <<rewrite, now, stab, resp>>

\* supabase.auth.getUser(): the user of the session, or null when signUp
\* opened no session (the address is to be confirmed first)
inviteGetUser(t, session) ==
  /\ itab[t].pc = "getuser"
  /\ IF session
     THEN itab' = [itab EXCEPT ![t].pc = "profile"]
     ELSE itab' = [itab EXCEPT ![t].pc = "loaded", ![t].outcome = "no_session"]
  /\ UNCHANGED <<rewrite, tables, now, stab, resp>>

\* profileData
ProfileData(it) ==
  [id |-> it.uid, client |-> it.inv.client,
   area |-> IF it.inv.type = "employee" /\ it.inv.area # NULL THEN it.inv.area
            ELSE IF it.inv.type = "area_admin" /\ it.areaId # NULL THEN it.areaId
            ELSE NULL,
   email |-> it.inv.email,
   role |-> IF it.inv.type = "area_admin" THEN "area_admin" ELSE "user"]

\* The insert into profiles without the return on its error.
inviteInsertProfile_NoReturn(t, admitted) ==
  LET row == ProfileData(itab[t])
      ok == /\ admitted
            /\ ~\E p \in profiles : p.id = row.id
            /\ (row.area = NULL \/ \E a \in areas : a.id = row.area)
  IN /\ itab[t].pc = "profile"
     /\ profiles' = IF ok THEN profiles \cup {row} ELSE profiles
     /\ itab' = [itab EXCEPT ![t].pc =
                   IF itab[t].inv.type = "area_admin" /\ itab[t].areaId # NULL
                   THEN "permission" ELSE "markused"]
     /\ UNCHANGED <<rewrite, clients, domains, users, areas, areaPerms, invitations,
                    now, stab, resp>>

\* insert into profiles
inviteInsertProfile(t, admitted) ==
  LET row == ProfileData(itab[t])
      ok == /\ admitted
            /\ ~\E p \in profiles : p.id = row.id
            /\ (row.area = NULL \/ \E a \in areas : a.id = row.area)
  IN /\ itab[t].pc = "profile"
     /\ IF ok
        THEN /\ profiles' = profiles \cup {row}
             /\ itab' = [itab EXCEPT ![t].pc =
                           IF itab[t].inv.type = "area_admin" /\ itab[t].areaId # NULL
                           THEN "permission" ELSE "markused"]
        ELSE /\ profiles' = profiles
             /\ itab' = [itab EXCEPT ![t].pc = "loaded", ![t].outcome = "profile_error"]
     /\ UNCHANGED <<rewrite, clients, domains, users, areas, areaPerms, invitations,
                    now, stab, resp>>

\* insert into area_permissions; an error is logged and the sign-up goes on
inviteInsertPermission(t, admitted) ==
  LET row == [area |-> itab[t].areaId, user |-> itab[t].uid, level |-> "admin",
              grantedBy |-> itab[t].inv.invitedBy]
      ok == /\ admitted
            /\ ~\E ap \in areaPerms : ap.area = row.area /\ ap.user = row.user
            /\ \E a \in areas : a.id = row.area
  IN /\ itab[t].pc = "permission"
     /\ areaPerms' = IF ok THEN areaPerms \cup {row} ELSE areaPerms
     /\ itab' = [itab EXCEPT ![t].pc = "markused"]
     /\ UNCHANGED <<rewrite, clients, domains, users, profiles, areas, invitations,
                    now, stab, resp>>

\* update invitations set used_at = now where id = ?; the answer is not
\* looked at, and the success toast follows
inviteMarkUsed(t, admitted) ==
  /\ itab[t].pc = "markused"
  /\ invitations' = IF admitted
                    THEN {IF i.id = itab[t].inv.id THEN [i EXCEPT !.usedAt = now] ELSE i
                          : i \in invitations}
                    ELSE invitations
  /\ itab' = [itab EXCEPT ![t].pc = "done", ![t].outcome = "ok"]
  /\ UNCHANGED <<rewrite, clients, domains, users, profiles, areas, areaPerms, now, stab, resp>>

\* The clock: 7 days pass.
Tick ==
  /\ now < MaxTime
  /\ now' = now + 1
  /\ UNCHANGED <<rewrite, tables, stab, itab, resp>>

(***************************************************************************)
(* An organization with its admin and one area, as company sign-up and the *)
(* Areas page leave it; invitations are then issued and redeemed.          *)
(***************************************************************************)
AbName == <<"A", "b">> \o InSuffix
AbSlug == <<"a", "b">>
AdminEmail == At("u", DomAC)

InitInviteTables ==
  /\ clients = {[id |-> 1, name |-> SystemAdminName, slug |-> SystemAdminSlug],
                [id |-> 2, name |-> AbName, slug |-> AbSlug]}
  /\ domains = {[client |-> 1, domain |-> AdminCom], [client |-> 2, domain |-> DomAC]}
  /\ users = {[id |-> 1, email |-> RootEmail], [id |-> 2, email |-> AdminEmail]}
  /\ profiles = {[id |-> 1, client |-> 1, area |-> NULL, email |-> RootEmail,
                  role |-> "super_admin"],
                 [id |-> 2, client |-> 2, area |-> NULL, email |-> AdminEmail,
                  role |-> "client_admin"]}
  /\ areas = {[id |-> 1, client |-> 2]}
  /\ areaPerms = {}
  /\ invitations = {}

InitInvite ==
  /\ InitInviteTables
  /\ now = 0
  /\ stab = InitSTab
  /\ itab = InitITab
  /\ resp = NoResp
  /\ rewrite = NoRewrite

InvitationTypes == {"area_admin", "employee"}

NextInvite ==
  \/ \E p \in profiles, b \in InviteBatches, ty \in InvitationTypes,
        a \in {x.id : x \in areas} \cup {NULL} : createInvitation(p.id, b, ty, a)
  \/ \E p \in {q \in profiles : q.role \in {"client_admin", "area_admin"}} :
        createAndCopyInvitationLink(p.id)
  \/ \E p \in profiles, i \in invitations : deleteInvitation(p.id, i.id)
  \/ \E t \in Tabs, tok \in 1..MaxInvitations : validateInvitation(t, tok)
  \/ \E t \in Tabs : \E a \in itab[t].areas \cup {NULL}, pw \in BOOLEAN :
        handleInviteSignUp(t, a, pw)
  \/ \E t \in Tabs : inviteSignUp(t)
  \/ \E t \in Tabs, session \in BOOLEAN : inviteGetUser(t, session)
  \/ \E t \in Tabs, admitted \in BOOLEAN : inviteInsertProfile(t, admitted)
  \/ \E t \in Tabs, admitted \in BOOLEAN : inviteInsertPermission(t, admitted)
  \/ \E t \in Tabs, admitted \in BOOLEAN : inviteMarkUsed(t, admitted)
  \/ Tick

SpecInvite == InitInvite /\ [][NextInvite]_vars

(***************************************************************************)
(* Row-level security of profiles and area_permissions.                    *)
(***************************************************************************)
\* INSERT: "Admins can create profiles",
\* "Client admins can create profiles for their client"
ProfilesInsertAllowed(uid, row) ==
  \/ get_user_role(uid) = "super_admin"
  \/ (row.client = get_user_client_id(uid) /\ get_user_role(uid) = "client_admin")
  \/ (row.client = get_user_client_id(uid) /\ get_user_role(uid) = "area_admin")

\* UPDATE: "Users can update their own profile",
\* "Client and area admins can update relevant profiles",
\* "Client admins can update profiles in their client"
ProfilesUpdateAllowed(uid, row) ==
  \/ row.id = uid
  \/ (get_user_role(uid) = "client_admin" /\ row.client = get_user_client_id(uid))
  \/ get_user_role(uid) = "super_admin"

\* INSERT: "Area admins can grant permissions in their areas", and the
\* FOR ALL policies of client admins and super admins
AreaPermissionsInsertAllowed(uid, row) ==
  \/ is_user_area_admin(uid, row.area)
  \/ \E a \in areas : /\ a.id = row.area
                      /\ a.client = get_user_client_id(uid)
                      /\ get_user_role(uid) = "client_admin"
  \/ get_user_role(uid) = "super_admin"

\* SELECT: "Area admins can view permissions for their areas",
\* "Users can view their own area permissions", and the FOR ALL policies
AreaPermissionsSelectAllowed(uid, row) ==
  \/ row.user = uid
  \/ is_user_area_admin(uid, row.area)
  \/ get_user_role(uid) = "client_admin"
  \/ get_user_role(uid) = "super_admin"
  \/ \E a \in areas : /\ a.id = row.area
                      /\ a.client = get_user_client_id(uid)
                      /\ get_user_role(uid) = "client_admin"

(***************************************************************************)
(* User management and Areas pages.  The requests carry the values of the  *)
(* form; what the store accepts is decided by the policies alone.          *)
(***************************************************************************)
\* area_id of the request as the area chosen, whatever the role.
FormAreaId_AsChosen(role, areaId) == areaId

\* area_id of the request: null for a client_admin, else the area chosen
FormAreaId(role, areaId) == IF role = "client_admin" THEN NULL ELSE areaId

\* handleAddUser: signUp of the new account, then the insert of its profile
handleAddUser(actor, email, role, areaId, clientId) ==
  LET r == signUp(email, << >>)
      row == [id |-> r.id,
              client |-> IF get_user_role(actor) = "super_admin" THEN clientId
                         ELSE get_user_client_id(actor),
              area |-> FormAreaId(role, areaId), email |-> email, role |-> role]
      ok == /\ ~r.error
            /\ ProfilesInsertAllowed(actor, row)
            /\ ~\E p \in r.profiles : p.id = row.id
            /\ \E c \in r.clients : c.id = row.client
            /\ (row.area = NULL \/ \E a \in areas : a.id = row.area)
  IN /\ (Cardinality(users) < MaxUsers \/ EmailRegistered(email))
     /\ users' = r.users
     /\ clients' = r.clients
     /\ domains' = r.domains
     /\ profiles' = IF ok THEN r.profiles \cup {row} ELSE r.profiles
     /\ resp' = [op |-> "addUser", actor |-> actor, ok |-> ok, rows |-> {row}]
     /\ UNCHANGED <<rewrite, areas, areaPerms, invitations, now, stab, itab>>

\* handleEditUser: update profiles set role, area_id where id = ?.  A row
\* the policies hide is not updated and no error is returned; a new row the
\* policies refuse is an error.
handleEditUser(actor, target, role, areaId) ==
  LET old == {p \in profiles : p.id = target /\ ProfilesUpdateAllowed(actor, p)}
      upd(p) == [p EXCEPT !.role = role, !.area = FormAreaId(role, areaId)]
      ok == \A p \in old : /\ ProfilesUpdateAllowed(actor, upd(p))
                           /\ (upd(p).area = NULL \/ \E a \in areas : a.id = upd(p).area)
  IN /\ profiles' = IF ok THEN (profiles \ old) \cup {upd(p) : p \in old} ELSE profiles
     /\ resp' = [op |-> "editUser", actor |-> actor, ok |-> ok, rows |-> {}]
     /\ UNCHANGED <<rewrite, clients, domains, users, areas, areaPerms, invitations,
                    now, stab, itab>>

\* The insert as an upsert on (area_id, user_id).
handleGrantPermission_Upsert(actor, areaId, userId, permissionLevel) ==
  LET row == [area |-> areaId, user |-> userId, level |-> permissionLevel,
              grantedBy |-> actor]
      ok == /\ AreaPermissionsInsertAllowed(actor, row)
            /\ \E a \in areas : a.id = areaId
            /\ \E u \in users : u.id = userId
  IN /\ Cardinality(areaPerms) < MaxPermissions
     /\ areaPerms' = IF ok
                     THEN {ap \in areaPerms : ~(ap.area = areaId /\ ap.user = userId)}
                          \cup {row}
                     ELSE areaPerms
     /\ resp' = [op |-> "grantPermission", actor |-> actor, ok |-> ok,
                 rows |-> {row}]
     /\ UNCHANGED <<rewrite, clients, domains, users, profiles, areas, invitations,
                    now, stab, itab>>

\* handleGrantPermission: insert into area_permissions
handleGrantPermission(actor, areaId, userId, permissionLevel) ==
  LET row == [area |-> areaId, user |-> userId, level |-> permissionLevel,
              grantedBy |-> actor]
      ok == /\ AreaPermissionsInsertAllowed(actor, row)
            /\ ~\E ap \in areaPerms : ap.area = areaId /\ ap.user = userId
            /\ \E a \in areas : a.id = areaId
            /\ \E u \in users : u.id = userId
  IN /\ Cardinality(areaPerms) < MaxPermissions
     /\ areaPerms' = IF ok THEN areaPerms \cup {row} ELSE areaPerms
     /\ resp' = [op |-> "grantPermission", actor |-> actor, ok |-> ok,
                 rows |-> {row}]
     /\ UNCHANGED <<rewrite, clients, domains, users, profiles, areas, invitations,
                    now, stab, itab>>

\* fetchPermissions: select * from area_permissions
fetchPermissions(actor) ==
  /\ resp' = [op |-> "fetchPermissions", actor |-> actor, ok |-> TRUE,
              rows |-> {ap \in areaPerms : AreaPermissionsSelectAllowed(actor, ap)}]
  /\ UNCHANGED <<rewrite, tables, now, stab, itab>>

(***************************************************************************)
(* Two organizations: ab (client 2) with its admin (1), the areas 1 and 2  *)
(* and an area admin (2) of area 1, and xy (client 3) with area 3 and a    *)
(* user (3) who holds a viewer permission there.                           *)
(***************************************************************************)
XyName == <<"X", "y">> \o InSuffix
XySlug == <<"x", "y">>
AreaAdminEmail == At("a", DomAC)
OtherEmail == At("w", DomX)

InitRlsTables ==
  /\ clients = {[id |-> 1, name |-> SystemAdminName, slug |-> SystemAdminSlug],
                [id |-> 2, name |-> AbName, slug |-> AbSlug],
                [id |-> 3, name |-> XyName, slug |-> XySlug]}
  /\ domains = {[client |-> 1, domain |-> AdminCom], [client |-> 2, domain |-> DomAC],
                [client |-> 3, domain |-> DomX]}
  /\ users = {[id |-> 1, email |-> AdminEmail], [id |-> 2, email |-> AreaAdminEmail],
              [id |-> 3, email |-> OtherEmail]}
  /\ profiles = {[id |-> 1, client |-> 2, area |-> NULL, email |-> AdminEmail,
                  role |-> "client_admin"],
                 [id |-> 2, client |-> 2, area |-> 1, email |-> AreaAdminEmail,
                  role |-> "area_admin"],
                 [id |-> 3, client |-> 3, area |-> 3, email |-> OtherEmail,
                  role |-> "user"]}
  /\ areas = {[id |-> 1, client |-> 2], [id |-> 2, client |-> 2], [id |-> 3, client |-> 3]}
  /\ areaPerms = {[area |-> 1, user |-> 2, level |-> "admin", grantedBy |-> 1],
                  [area |-> 3, user |-> 3, level |-> "viewer", grantedBy |-> 3]}
  /\ invitations = {}

InitRls ==
  /\ InitRlsTables
  /\ now = 0
  /\ stab = InitSTab
  /\ itab = InitITab
  /\ resp = NoResp
  /\ rewrite = NoRewrite

AddUserEmails == {At("n", DomAC)}
FormRoles == {"user", "client_admin"}
FormAreas == {2}
\* the client select is offered to a super admin only
FormClients(actor) ==
  IF get_user_role(actor) = "super_admin" THEN {c.id : c \in clients}
  ELSE {get_user_client_id(actor)}
GrantLevels == {"admin", "viewer"}

NextRls ==
  \/ \E p \in profiles, e \in AddUserEmails, r \in FormRoles, a \in FormAreas :
       \E c \in FormClients(p.id) : handleAddUser(p.id, e, r, a, c)
  \/ \E p \in profiles, q \in profiles, r \in FormRoles, a \in FormAreas :
        handleEditUser(p.id, q.id, r, a)
  \/ \E p \in profiles, a \in areas, u \in users, l \in GrantLevels :
        handleGrantPermission(p.id, a.id, u.id, l)
  \/ \E p \in profiles : fetchPermissions(p.id)

SpecRls == InitRls /\ [][NextRls]_vars

(***************************************************************************)
(* InvitationManager under the policies: the principals of InitRlsTables   *)
(* (a client admin, an area admin with admin level on area 1, a user of    *)
(* another organization) create and delete invitations.                    *)
(***************************************************************************)
NextIssue ==
  \/ \E p \in profiles, b \in InviteBatches, ty \in InvitationTypes,
        a \in {x.id : x \in areas} \cup {NULL} : createInvitation(p.id, b, ty, a)
  \/ \E p \in {q \in profiles : q.role \in {"client_admin", "area_admin"}} :
        createAndCopyInvitationLink(p.id)
  \/ \E p \in profiles, i \in invitations : deleteInvitation(p.id, i.id)
  \/ Tick

SpecIssue == InitRls /\ [][NextIssue]_vars

(***************************************************************************)
(* Row-level security of evaluations and evaluation_responses, as the      *)
(* migrations leave it.  An evaluation is [client, area, evaluatee,        *)
(* evaluator]; a response points to its evaluation, and its policies read  *)
(* that evaluation.                                                        *)
(***************************************************************************)
\* "Super admins can manage all evaluations",
\* "Client admins and area admins can manage evaluations" (FOR ALL)
EvaluationsManageAllowed(uid, e) ==
  \/ get_user_role(uid) = "super_admin"
  \/ (e.client = get_user_client_id(uid) /\ get_user_role(uid) = "client_admin")
  \/ /\ e.area # NULL
     /\ \E ap \in areaPerms : ap.area = e.area /\ ap.user = uid /\ ap.level = "admin"

\* "Users can view evaluations in their accessible areas" (FOR SELECT)
EvaluationsSelectAllowed(uid, e) ==
  \/ /\ e.client = get_user_client_id(uid)
     /\ (e.evaluatee = uid \/ e.evaluator = uid)
  \/ /\ e.area # NULL
     /\ \E ap \in areaPerms : ap.area = e.area /\ ap.user = uid
     /\ (e.evaluatee = uid \/ e.evaluator = uid)

\* "Users can update evaluations they're evaluating" (FOR UPDATE)
EvaluationsUpdateAllowed(uid, e) ==
  e.client = get_user_client_id(uid) /\ e.evaluator = uid

\* "Super admins can manage all evaluation responses",
\* "Users can manage responses for evaluations they're evaluating" (FOR ALL)
EvaluationResponsesManageAllowed(uid, e) ==
  \/ get_user_role(uid) = "super_admin"
  \/ (e.client = get_user_client_id(uid) /\ e.evaluator = uid)

\* "Users can view responses for evaluations they're involved in" (FOR SELECT)
EvaluationResponsesSelectAllowed(uid, e) ==
  /\ e.client = get_user_client_id(uid)
  /\ (e.evaluatee = uid \/ e.evaluator = uid)

EvaluationTables == {"evaluations", "evaluation_responses"}

Commands == {"select", "insert", "update", "delete"}

\* The permissive policies of the table that apply to the command, OR-ed.
Permitted(uid, table, cmd, e) ==
  IF table = "evaluations"
  THEN \/ EvaluationsManageAllowed(uid, e)
       \/ (cmd = "select" /\ EvaluationsSelectAllowed(uid, e))
       \/ (cmd = "update" /\ EvaluationsUpdateAllowed(uid, e))
  ELSE \/ EvaluationResponsesManageAllowed(uid, e)
       \/ (cmd = "select" /\ EvaluationResponsesSelectAllowed(uid, e))

\* The evaluations a request may be about: of either organization, with or
\* without an area, between the accounts of the store.
EvaluationRows ==
  [client : {2, 3}, area : {NULL, 1}, evaluatee : {1, 2}, evaluator : {1, 2, 3}]

\* A request of a signed-in principal on a row of one of the two tables.
evaluationRequest(actor, table, cmd, e) ==
  /\ resp' = [op |-> table, actor |-> actor, ok |-> Permitted(actor, table, cmd, e),
              rows |-> {[cmd |-> cmd, row |-> e]}]
  /\ UNCHANGED <<rewrite, tables, now, stab, itab>>

NextPolicy ==
  \/ \E p \in profiles, q \in profiles, r \in FormRoles, a \in FormAreas :
        handleEditUser(p.id, q.id, r, a)
  \/ \E p \in profiles, tb \in EvaluationTables, cmd \in Commands, e \in EvaluationRows :
        evaluationRequest(p.id, tb, cmd, e)

SpecPolicy == InitRls /\ [][NextPolicy]_vars

(***************************************************************************)
(* User management as the form offers it: the page is shown to super,      *)
(* client and area admins; the role select and the area select depend on   *)
(* the role of the caller, and the client select of a super admin can be   *)
(* changed after an area was chosen.                                       *)
(***************************************************************************)
DomZ == <<"z", "z", ".", "c", "o">>   \* zz.co: bound to no organization

UserFormEmails == {At("n", DomAC), At("n", DomZ)}

\* the items of the role select
UserFormRoles(actor) ==
  IF get_user_role(actor) \in {"super_admin", "client_admin"}
  THEN {"user", "area_admin", "client_admin"}
  ELSE {"user"}

\* the items of the area select ("No Area" is NULL).  A super admin sees the
\* areas of the client selected at that moment, and the value stays when
\* another client is selected afterwards.
UserFormAreas(actor) ==
  {NULL} \cup
  {a.id : a \in {b \in areas :
     IF get_user_role(actor) = "super_admin" THEN TRUE
     ELSE IF get_user_role(actor) = "area_admin"
     THEN \E p \in profiles : p.id = actor /\ p.area = b.id
     ELSE b.client = get_user_client_id(actor)}}

\* the rows of the list whose edit dialog is opened
EditTargets == {3, 4}

InitUsersTables ==
  /\ clients = {[id |-> 1, name |-> SystemAdminName, slug |-> SystemAdminSlug],
                [id |-> 2, name |-> AbName, slug |-> AbSlug],
                [id |-> 3, name |-> XyName, slug |-> XySlug]}
  /\ domains = {[client |-> 1, domain |-> AdminCom], [client |-> 2, domain |-> DomAC],
                [client |-> 3, domain |-> DomX]}
  /\ users = {[id |-> 1, email |-> RootEmail], [id |-> 2, email |-> AdminEmail],
              [id |-> 3, email |-> AreaAdminEmail]}
  /\ profiles = {[id |-> 1, client |-> 1, area |-> NULL, email |-> RootEmail,
                  role |-> "super_admin"],
                 [id |-> 2, client |-> 2, area |-> NULL, email |-> AdminEmail,
                  role |-> "client_admin"],
                 [id |-> 3, client |-> 2, area |-> 1, email |-> AreaAdminEmail,
                  role |-> "area_admin"]}
  /\ areas = {[id |-> 1, client |-> 2], [id |-> 3, client |-> 3]}
  /\ areaPerms = {[area |-> 1, user |-> 3, level |-> "admin", grantedBy |-> 2]}
  /\ invitations = {}

InitUsers ==
  /\ InitUsersTables
  /\ now = 0
  /\ stab = InitSTab
  /\ itab = InitITab
  /\ resp = NoResp
  /\ rewrite = NoRewrite

NextUsers ==
  \/ \E p \in {q \in profiles : q.role # "user"}, e \in UserFormEmails :
       \E r \in UserFormRoles(p.id), a \in UserFormAreas(p.id), c \in FormClients(p.id) :
         handleAddUser(p.id, e, r, a, c)
  \/ \E p \in {q \in profiles : q.role # "user"}, target \in EditTargets :
       \E r \in UserFormRoles(p.id), a \in UserFormAreas(p.id) :
         handleEditUser(p.id, target, r, a)

SpecUsers == InitUsers /\ [][NextUsers]_vars

(***************************************************************************)
(* Row security policies as the planner expands them.  A statement on a    *)
(* relation gets the quals of the policies that apply to its command; a    *)
(* subquery in a qual reads its relation under the caller's policies for   *)
(* SELECT, which are expanded in turn; a relation met again while its own  *)
(* policies are being expanded is "infinite recursion detected in policy". *)
(* A SECURITY DEFINER function reads its table as the owner, for whom no   *)
(* policy applies: a lookup, nothing to expand.                            *)
(***************************************************************************)
Policy(on, for, reads, calls) == [on |-> on, for |-> for, reads |-> reads, calls |-> calls]

\* The policies of area_permissions as first created: the two rules for area
\* admins read area_permissions in a subquery.
AreaPermissionsPolicies_Original ==
  { Policy("area_permissions", "SELECT", {}, {}),
    Policy("area_permissions", "SELECT", {"area_permissions"}, {}),
    Policy("area_permissions", "ALL", {"areas"}, {"get_user_client_id", "get_user_role"}),
    Policy("area_permissions", "INSERT", {"area_permissions"}, {}),
    Policy("area_permissions", "ALL", {}, {"get_user_role"}) }

\* The policies of area_permissions, recreated over the security definer
\* functions.
AreaPermissionsPolicies ==
  { Policy("area_permissions", "INSERT", {}, {"is_user_area_admin"}),
    Policy("area_permissions", "SELECT", {}, {"is_user_area_admin", "get_user_role"}),
    Policy("area_permissions", "ALL", {"areas"}, {"get_user_client_id", "get_user_role"}),
    Policy("area_permissions", "ALL", {}, {"get_user_role"}),
    Policy("area_permissions", "SELECT", {}, {}) }

AreasPolicies ==
  { Policy("areas", "SELECT", {}, {"get_user_client_id", "get_user_role", "is_user_area_admin"}),
    Policy("areas", "ALL", {}, {"get_user_client_id", "get_user_role"}),
    Policy("areas", "ALL", {}, {"get_user_role"}) }

ProfilesPolicies ==
  { Policy("profiles", "SELECT", {}, {"get_user_role"}),
    Policy("profiles", "SELECT", {}, {"get_user_client_id", "get_user_role"}),
    Policy("profiles", "SELECT", {}, {}),
    Policy("profiles", "UPDATE", {}, {}),
    Policy("profiles", "INSERT", {}, {"get_user_client_id", "get_user_role"}),
    Policy("profiles", "UPDATE", {}, {"get_user_client_id", "get_user_role"}),
    Policy("profiles", "DELETE", {}, {"get_user_client_id", "get_user_role"}),
    Policy("profiles", "SELECT", {}, {"get_user_client_id", "get_user_role", "is_user_area_admin"}) }

InvitationsPolicies ==
  { Policy("invitations", "ALL", {}, {"get_user_client_id", "get_user_role"}),
    Policy("invitations", "INSERT", {}, {"is_user_area_admin", "get_user_client_id"}),
    Policy("invitations", "SELECT", {}, {"is_user_area_admin"}),
    Policy("invitations", "ALL", {}, {"get_user_role"}) }

EvaluationPolicies ==
  { Policy("evaluation_criteria", "ALL", {}, {"get_user_role"}),
    Policy("evaluation_criteria", "ALL", {"area_permissions"}, {"get_user_client_id", "get_user_role"}),
    Policy("evaluation_criteria", "SELECT", {"area_permissions"}, {"get_user_client_id"}),
    Policy("evaluation_criteria", "ALL", {}, {"get_user_client_id", "get_user_role", "is_user_area_admin"}),
    Policy("evaluations", "ALL", {}, {"get_user_role"}),
    Policy("evaluations", "ALL", {"area_permissions"}, {"get_user_client_id", "get_user_role"}),
    Policy("evaluations", "SELECT", {"area_permissions"}, {"get_user_client_id"}),
    Policy("evaluations", "UPDATE", {}, {"get_user_client_id"}),
    Policy("evaluation_responses", "ALL", {}, {"get_user_role"}),
    Policy("evaluation_responses", "ALL", {"evaluations"}, {"get_user_client_id"}),
    Policy("evaluation_responses", "SELECT", {"evaluations"}, {"get_user_client_id"}) }

RolesPolicies ==
  { Policy("roles", "ALL", {}, {"get_user_role"}),
    Policy("roles", "ALL", {}, {"get_user_client_id", "get_user_role"}),
    Policy("roles", "ALL", {"area_permissions"}, {}),
    Policy("roles", "SELECT", {"area_permissions"}, {"get_user_client_id"}),
    Policy("evaluation_templates", "ALL", {}, {"get_user_role"}),
    Policy("evaluation_templates", "ALL", {"roles", "area_permissions"},
           {"get_user_client_id", "get_user_role"}),
    Policy("evaluation_templates", "SELECT", {"roles", "area_permissions"},
           {"get_user_client_id"}),
    Policy("evaluation_criteria_templates", "ALL", {}, {"get_user_role"}),
    Policy("evaluation_criteria_templates", "ALL",
           {"evaluation_templates", "roles", "area_permissions"},
           {"get_user_client_id", "get_user_role"}),
    Policy("evaluation_criteria_templates", "SELECT",
           {"evaluation_templates", "roles", "area_permissions"},
           {"get_user_client_id"}) }

Policies ==
  AreaPermissionsPolicies \cup AreasPolicies \cup ProfilesPolicies
    \cup InvitationsPolicies \cup EvaluationPolicies \cup RolesPolicies

PolicyRelations == {p.on : p \in Policies}

StatementCommands == {"SELECT", "INSERT", "UPDATE", "DELETE"}

PoliciesFor(rel, cmd) == {p \in Policies : p.on = rel /\ p.for \in {"ALL", cmd}}

\* The relations that the quals for cmd on rel read in subqueries.
Sublinks(rel, cmd) == UNION {p.reads : p \in PoliciesFor(rel, cmd)}

\* The security definer functions that these quals call.
DefinerCalls(rel, cmd) == UNION {p.calls : p \in PoliciesFor(rel, cmd)}

\* A statement cmd on rel arrives: its policies' quals are attached.
startRewrite(rel, cmd) ==
  /\ rewrite.pc # "running"
  /\ rewrite' = [pc |-> "running", rel |-> rel, cmd |-> cmd, active |-> <<rel>>,
                 todo |-> <<Sublinks(rel, cmd)>>, lookups |-> DefinerCalls(rel, cmd)]
  /\ UNCHANGED <<tables, now, stab, itab, resp>>

\* The next subquery of the relation on top: its relation is read under the
\* SELECT policies, unless it is already being expanded.
expandSublink ==
  /\ rewrite.pc = "running"
  /\ LET n == Len(rewrite.active)
     IN /\ rewrite.todo[n] # {}
        /\ \E r \in rewrite.todo[n] :
             IF \E i \in 1..n : rewrite.active[i] = r
             THEN rewrite' = [rewrite EXCEPT !.pc = "recursion"]
             ELSE rewrite' = [rewrite EXCEPT
                    !.active = Append(@, r),
                    !.todo = Append([@ EXCEPT ![n] = @ \ {r}], Sublinks(r, "SELECT")),
                    !.lookups = @ \cup DefinerCalls(r, "SELECT")]
  /\ UNCHANGED <<tables, now, stab, itab, resp>>

\* The relation on top has no subquery left: back to the one that read it.
finishRelation ==
  /\ rewrite.pc = "running"
  /\ LET n == Len(rewrite.active)
     IN /\ rewrite.todo[n] = {}
        /\ rewrite' = [rewrite EXCEPT !.active = SubSeq(@, 1, n - 1),
                                      !.todo = SubSeq(@, 1, n - 1),
                                      !.pc = IF n = 1 THEN "done" ELSE "running"]
  /\ UNCHANGED <<tables, now, stab, itab, resp>>

InitRewrite == InitRls

NextRewrite ==
  \/ \E rel \in PolicyRelations, cmd \in StatementCommands : startRewrite(rel, cmd)
  \/ expandSublink
  \/ finishRelation

\* The planner goes on with a statement it has begun.
SpecRewrite ==
  InitRewrite /\ [][NextRewrite]_vars /\ WF_vars(expandSublink \/ finishRelation)

(***************************************************************************)
(* Claims about tenant resolution and the first sign-up of a domain.       *)
(***************************************************************************)
\* C2: in every reachable state each email domain is bound to at most one
\* organization, so all addresses of a domain resolve to the same client.
C2_DomainBoundToOneOrg ==
  \A d1 \in domains, d2 \in domains : d1.domain = d2.domain => d1.client = d2.client

\* C10: a company sign-up that reaches the store with an address whose domain
\* is unseen creates, in that one step, the organization (name: the company
\* name given, else the capitalised first label and " Inc."; slug: the first
\* label in lower case), the domain row binding the domain to it, and the
\* profile of the new account with role client_admin, that organization and
\* no area.
C10_UnseenDomainSignupCreates ==
  [][\A t \in Tabs :
       LET email == stab[t].email
           dom == SplitPart(email, "@", 2)
           label == SplitPart(dom, ".", 1)
       IN (/\ stab[t].pc = "form"
           /\ stab'[t].pc = "done"
           /\ stab'[t].outcome \in {"ok", "error"}
           /\ DomainRows(dom) = {})
          => \E c \in clients' \ clients :
               /\ c.slug = Lower(label)
               /\ c.name = IF stab'[t].company = << >>
                           THEN Initcap(label) \o InSuffix
                           ELSE stab'[t].company
               /\ [client |-> c.id, domain |-> dom] \in domains' \ domains
               /\ \E p \in profiles' \ profiles :
                    /\ p.client = c.id
                    /\ p.role = "client_admin"
                    /\ p.area = NULL
                    /\ p.email = email
                    /\ \E u \in users' \ users : u.id = p.id /\ u.email = email
    ]_vars

(***************************************************************************)
(* Claims about the redemption of an invitation.  An attempt is a          *)
(* submission of the invited sign-up form that got past the domain check;  *)
(* it has ended when its tab shows the form again or the success toast.    *)
(***************************************************************************)
\* C1: when the redemption of an invitation is attempted several times while
\* the invitation is valid, exactly one attempt succeeds, every other attempt
\* fails because the invitation was used (in a tab that loaded the invitation
\* before, that is the error of signUp), and exactly one account and one
\* profile exist for the invited address.
C1_RedeemedExactlyOnce ==
  \A i \in invitations :
    LET onI == {t \in Tabs : itab[t].inv.id = i.id}
        attempts == {t \in onI : /\ itab[t].pc \in {"loaded", "done"}
                                 /\ itab[t].outcome \in {"ok", "signup_error",
                                                         "no_session", "profile_error"}}
        succeeded == {t \in attempts : itab[t].outcome = "ok"}
    IN (/\ Cardinality(attempts) >= 2
        /\ \A t \in onI : itab[t].pc \in {"loaded", "done"}
        /\ \A t \in attempts : itab[t].at < i.expiresAt)
       => /\ Cardinality(succeeded) = 1
          /\ \A t \in attempts \ succeeded : itab[t].outcome = "signup_error"
          /\ Cardinality({u \in users : u.email = i.email}) = 1
          /\ Cardinality({p \in profiles : p.email = i.email}) = 1

\* C6: no redemption submitted at or after the expiry of the invitation
\* succeeds, also when the page loaded the invitation while it was valid.
C6_NoRedemptionAfterExpiry ==
  \A t \in Tabs :
    ~(/\ itab[t].pc = "done"
      /\ itab[t].outcome = "ok"
      /\ itab[t].at >= itab[t].inv.expiresAt)

\* C7: a submission of the invited sign-up form that reaches the domain check
\* while the domain of the invitation's address is not registered to the
\* invitation's organization ends with the domain error, and creates no
\* account, no profile and no area permission, and leaves the invitations as
\* they were (the invitation stays pending).
C7_DomainMismatchCreatesNothing ==
  [][\A t \in Tabs :
       (/\ itab[t].pc = "loaded"
        /\ itab'[t] # itab[t]
        /\ itab'[t].outcome \notin {"password", "area_required"}
        /\ ~\E d \in domains : /\ d.client = itab[t].inv.client
                               /\ d.domain = SplitPart(itab[t].inv.email, "@", 2))
       => /\ itab'[t].pc = "loaded"
          /\ itab'[t].outcome = "domain_mismatch"
          /\ users' = users
          /\ profiles' = profiles
          /\ areaPerms' = areaPerms
          /\ invitations' = invitations
    ]_vars

\* C7, witness: a tab shows the domain error for an invitation that is still
\* pending, and the invited address has no account and no profile.
C7_Witness ==
  \E t \in Tabs :
    /\ itab[t].pc = "loaded"
    /\ itab[t].outcome = "domain_mismatch"
    /\ \E i \in invitations : i.id = itab[t].inv.id /\ i.usedAt = NULL
    /\ ~\E u \in users : u.email = itab[t].inv.email
    /\ ~\E p \in profiles : p.email = itab[t].inv.email

\* C8: when an attempt to redeem an area_admin invitation with a chosen area
\* has ended, the profile (role area_admin, scoped to the area) of the new
\* account exists if and only if its area permission (the area, the account,
\* level admin) exists.
C8_ProfileAndPermissionTogether ==
  \A t \in Tabs :
    (/\ itab[t].pc \in {"loaded", "done"}
     /\ itab[t].inv.type = "area_admin"
     /\ itab[t].uid # NULL)
    => ((\E p \in profiles : /\ p.id = itab[t].uid
                             /\ p.role = "area_admin"
                             /\ p.area = itab[t].areaId)
        <=> (\E ap \in areaPerms : /\ ap.user = itab[t].uid
                                   /\ ap.area = itab[t].areaId
                                   /\ ap.level = "admin"))

\* C9: after a redemption of an employee invitation that the page reports as
\* a success, the account of the invited address exists, its profile has role
\* user, the invitation's organization and the invitation's area, and the
\* invitation's used_at is not null.
C9_EmployeeRedemption ==
  \A t \in Tabs :
    (/\ itab[t].pc = "done"
     /\ itab[t].outcome = "ok"
     /\ itab[t].inv.type = "employee")
    => /\ \E u \in users : u.id = itab[t].uid /\ u.email = itab[t].inv.email
       /\ \E p \in profiles : /\ p.id = itab[t].uid
                              /\ p.role = "user"
                              /\ p.client = itab[t].inv.client
                              /\ p.area = itab[t].inv.area
       /\ \E i \in invitations : i.id = itab[t].inv.id /\ i.usedAt # NULL

(***************************************************************************)
(* Claims about what the store lets a principal do.  resp' names the       *)
(* principal of the step; its role, organization and grants are those      *)
(* before the step.                                                        *)
(***************************************************************************)
\* C3: every step that gives a profile a role (a profile created, or a
\* profile whose role changes) is taken by a principal who may assign that
\* role: a super_admin; a client_admin, for the roles user, area_admin and
\* client_admin in the own organization; an area_admin, for the role user in
\* an area the area_admin administers; a user never.
C3_RolesAssignedAsCanAssign ==
  [][\A p \in profiles' :
       (~\E q \in profiles : q.id = p.id /\ q.role = p.role)
       => LET actor == resp'.actor
              r == get_user_role(actor)
          IN \/ r = "super_admin"
             \/ /\ r = "client_admin"
                /\ p.role \in {"user", "area_admin", "client_admin"}
                /\ p.client = get_user_client_id(actor)
             \/ /\ r = "area_admin"
                /\ p.role = "user"
                /\ p.area # NULL
                /\ is_user_area_admin(actor, p.area)
    ]_vars

\* C4: a step of a client_admin reads area-permission rows of the own
\* organization only, and creates, changes or removes only profiles and
\* area-permission rows of the own organization.
C4_ClientAdminConfined ==
  [][LET actor == resp'.actor
         own == get_user_client_id(actor)
         orgOf(a) == IF \E x \in areas : x.id = a
                     THEN (CHOOSE x \in areas : x.id = a).client
                     ELSE NULL
     IN get_user_role(actor) = "client_admin"
        => /\ \A ap \in resp'.rows : orgOf(ap.area) = own
           /\ \A p \in (profiles' \ profiles) \cup (profiles \ profiles') :
                p.client = own
           /\ \A ap \in (areaPerms' \ areaPerms) \cup (areaPerms \ areaPerms') :
                orgOf(ap.area) = own
    ]_vars

\* C5: a step of an area_admin who holds an admin permission on some area
\* creates, changes or removes no profile of somebody else, no area
\* permission and no invitation that is scoped to an area on which the
\* area_admin holds no admin permission.
C5_AreaAdminConfined ==
  [][LET actor == resp'.actor
     IN (get_user_role(actor) = "area_admin" /\ get_user_area_admin_areas(actor) # {})
        => /\ \A p \in (profiles' \ profiles) \cup (profiles \ profiles') :
                p.id = actor \/ p.area = NULL \/ is_user_area_admin(actor, p.area)
           /\ \A ap \in (areaPerms' \ areaPerms) \cup (areaPerms \ areaPerms') :
                is_user_area_admin(actor, ap.area)
           /\ \A i \in (invitations' \ invitations) \cup (invitations \ invitations') :
                i.area = NULL \/ is_user_area_admin(actor, i.area)
    ]_vars


(***************************************************************************)
(* Claims about company sign-ups that meet a registered domain, a race or  *)
(* a taken slug.  A sign-up is processed in the step that takes the form   *)
(* from "form" to "done" with matching passwords.                          *)
(***************************************************************************)
\* C11: a company sign-up (no invitation) whose email domain is bound to an
\* organization in the state in which it is processed is rejected and
\* creates neither an account nor a profile.
C11_RegisteredDomainRejected ==
  [][\A t \in Tabs :
       (/\ stab[t].pc = "form"
        /\ stab'[t].pc = "done"
        /\ stab'[t].outcome # "password"
        /\ DomainRows(SplitPart(stab[t].email, "@", 2)) # {})
       => /\ stab'[t].outcome \in {"domain_exists", "error"}
          /\ users' = users
          /\ profiles' = profiles
    ]_vars

\* C12: a company sign-up that saw its domain unseen when the form checked
\* it, and finds the domain bound when it is processed (another sign-up of
\* the same domain won), does not fail: it ends as a join, with an account
\* and a profile in the winner's organization.
C12_RaceLoserJoinsWinner ==
  [][\A t \in Tabs :
       LET email == stab[t].email
           rows == DomainRows(SplitPart(email, "@", 2))
       IN (/\ stab[t].pc = "form"
           /\ stab'[t].pc = "done"
           /\ stab'[t].outcome \in {"ok", "error"}
           /\ ~EmailRegistered(email)
           /\ rows # {})
          => /\ stab'[t].outcome = "ok"
             /\ \E p \in profiles' \ profiles :
                  /\ p.email = email
                  /\ \E d \in rows : p.client = d.client
    ]_vars

\* C20: a company sign-up of an unseen domain whose first label is the slug
\* of an existing organization succeeds all the same: the organization is
\* created under another slug, and slugs stay unique.
C20_SlugCollisionSuffixed ==
  [][\A t \in Tabs :
       LET email == stab[t].email
           dom == SplitPart(email, "@", 2)
       IN (/\ stab[t].pc = "form"
           /\ stab'[t].pc = "done"
           /\ stab'[t].outcome \in {"ok", "error"}
           /\ ~EmailRegistered(email)
           /\ DomainRows(dom) = {}
           /\ SlugTaken(SlugFor(dom)))
          => /\ stab'[t].outcome = "ok"
             /\ \E c \in clients' \ clients :
                  /\ ~SlugTaken(c.slug)
                  /\ [client |-> c.id, domain |-> dom] \in domains'
    ]_vars

(***************************************************************************)
(* Claims about accounts and their profiles.                               *)
(***************************************************************************)
\* C19: whenever no invited sign-up is between two of its requests, every
\* account has exactly one profile; in particular a sign-up that failed at
\* one of its steps has left neither an account nor a profile.
C19_AccountHasOneProfile ==
  (\A t \in Tabs : itab[t].pc \in {"idle", "loaded", "done"})
  => \A u \in users : Cardinality({p \in profiles : p.id = u.id}) = 1

(***************************************************************************)
(* Claims about the validation of an invitation link.                      *)
(***************************************************************************)
\* C18: validating a token loads the invitation exactly when a row with the
\* token exists, is not used, and is not expired, where expired means that
\* the time is past expiresAt; every other validation ends in the one
\* failure "invalid_link".
C18_ValidateExactlyWhenPending ==
  [][\A t \in Tabs :
       (itab[t].pc = "idle" /\ itab'[t].pc # "idle")
       => LET valid(tok) == {i \in invitations :
                               /\ i.token = tok
                               /\ i.usedAt = NULL
                               /\ ~(now > i.expiresAt)}
          IN \/ /\ itab'[t].pc = "loaded"
                /\ itab'[t].inv \in valid(itab'[t].inv.token)
             \/ /\ itab'[t].pc = "done"
                /\ itab'[t].outcome = "invalid_link"
                /\ \E tok \in 1..MaxInvitations : valid(tok) = {}
    ]_vars

(***************************************************************************)
(* Claims about consumed invitations.                                      *)
(***************************************************************************)
\* C16: an invitation whose used_at is set has a principal created by its
\* redemption (an account of the invited address with a profile in the
\* invitation's organization and the role of the invitation's type), and a
\* step in which a redemption ends with an error leaves every invitation as
\* it was.
C16_ConsumedHasPrincipal ==
  /\ [](\A i \in invitations :
          i.usedAt # NULL
          => \E u \in users : \E p \in profiles :
               /\ u.email = i.email
               /\ p.id = u.id
               /\ p.email = i.email
               /\ p.client = i.client
               /\ p.role = IF i.type = "area_admin" THEN "area_admin" ELSE "user")
  /\ [][\A t \in Tabs :
          (/\ itab[t] # itab'[t]
           /\ itab'[t].pc = "loaded"
           /\ itab'[t].outcome \in {"password", "area_required", "domain_mismatch",
                                    "signup_error", "no_session", "profile_error"})
          => invitations' = invitations
       ]_vars

\* C16, witness: an invitation is consumed, the attempt that consumed it has
\* ended, and another attempt on the same invitation has failed.
C16_Witness ==
  \E i \in invitations : \E t1 \in Tabs, t2 \in Tabs :
    /\ i.usedAt # NULL
    /\ itab[t1].inv.id = i.id /\ itab[t1].pc = "done" /\ itab[t1].outcome = "ok"
    /\ itab[t2].inv.id = i.id /\ itab[t2].pc = "loaded"
    /\ itab[t2].outcome = "signup_error"

\* C17: consumed is terminal.  No step changes the used_at of an invitation
\* whose used_at is set, and no step of a redemption attempt whose token is
\* the token of a consumed invitation creates an account or a profile.
C17_ConsumedIsTerminal ==
  [][/\ \A i \in invitations : \A j \in invitations' :
          (i.usedAt # NULL /\ j.id = i.id) => j.usedAt = i.usedAt
     /\ \A t \in Tabs :
          (/\ itab[t] # itab'[t]
           /\ \E i \in invitations : i.token = itab[t].inv.token /\ i.usedAt # NULL)
          => (users' = users /\ profiles' = profiles)
    ]_vars

\* C17, witness: an invitation was consumed, time has passed, and an attempt
\* with its token submitted after the consumption has ended in an error.
C17_Witness ==
  \E i \in invitations : \E t \in Tabs :
    /\ i.usedAt # NULL
    /\ i.usedAt < now
    /\ itab[t].inv.token = i.token
    /\ itab[t].at > i.usedAt
    /\ itab[t].pc = "loaded"
    /\ itab[t].outcome = "signup_error"

(***************************************************************************)
(* Claims about issuing invitations.                                       *)
(***************************************************************************)
\* C13: every invitation row that a request of an area admin persists has
\* type employee, an area on which the issuer holds level admin, and the
\* issuer's own organization; and a request of an area admin for type
\* area_admin is refused and persists no row.
C13_AreaAdminIssuesEmployeeOnly ==
  /\ [][(/\ resp'.op = "createInvitation"
         /\ get_user_role(resp'.actor) = "area_admin")
        => \A i \in invitations' \ invitations :
             /\ i.invitedBy = resp'.actor
             /\ i.type = "employee"
             /\ \E ap \in areaPerms : /\ ap.area = i.area
                                      /\ ap.user = resp'.actor
                                      /\ ap.level = "admin"
             /\ i.client = get_user_client_id(resp'.actor)
       ]_vars
  /\ [](\A p \in profiles : \A b \in InviteBatches :
          \A a \in {x.id : x \in areas} \cup {NULL} :
            p.role = "area_admin"
            => LET r == CreateInvitations(invitations, b, p.id, "area_admin", a, now)
               IN r.thrown /\ r.rows = invitations)

\* C13, witness: an employee invitation issued by an area admin is stored,
\* and the last request, of an area admin, was refused.
C13_Witness ==
  /\ \E i \in invitations : /\ get_user_role(i.invitedBy) = "area_admin"
                            /\ i.type = "employee"
  /\ resp.op = "createInvitation"
  /\ get_user_role(resp.actor) = "area_admin"
  /\ ~resp.ok

\* C14: a client admin who issues an employee invitation to one well-formed
\* address for any area of the own organization succeeds, and exactly one
\* row is added: pending, carrying the issuer's organization; no area
\* permission of the issuer is asked for.
C14_ClientAdminIssuesForAnyArea ==
  /\ [](\A p \in profiles : \A e \in InviteEmails : \A a \in areas :
          (p.role = "client_admin" /\ a.client = p.client)
          => LET r == CreateInvitations(invitations, <<e>>, p.id, "employee", a.id, now)
                 added == r.rows \ invitations
             IN /\ ~r.thrown
                /\ invitations \subseteq r.rows
                /\ Cardinality(added) = 1
                /\ \A i \in added : /\ i.client = p.client
                                    /\ i.invitedBy = p.id
                                    /\ i.email = e
                                    /\ i.type = "employee"
                                    /\ i.area = a.id
                                    /\ i.usedAt = NULL
                                    /\ i.expiresAt > now)
  /\ [][(/\ resp'.op = "createInvitation"
         /\ get_user_role(resp'.actor) = "client_admin")
        => \A i \in invitations' \ invitations :
             /\ i.client = get_user_client_id(resp'.actor)
             /\ i.usedAt = NULL
             /\ i.expiresAt > now
       ]_vars

\* C14, witness: an employee invitation of a client admin for an area of the
\* own organization is stored after a request that succeeded, and the client
\* admin has no permission row on that area.
C14_Witness ==
  \E i \in invitations :
    /\ resp.op = "createInvitation" /\ resp.actor = i.invitedBy /\ resp.ok
    /\ get_user_role(i.invitedBy) = "client_admin"
    /\ i.type = "employee"
    /\ \E a \in areas : a.id = i.area /\ a.client = get_user_client_id(i.invitedBy)
    /\ ~\E ap \in areaPerms : ap.area = i.area /\ ap.user = i.invitedBy
    /\ i.usedAt = NULL

(***************************************************************************)
(* Claims about the order of the roles.                                    *)
(***************************************************************************)
\* C15: permission is monotonic in the rank of the role: when a request of a
\* principal with role user on an evaluation or on a response is permitted,
\* the same request is permitted to every client admin of the principal's
\* organization.
C15_PermissionMonotonicInRole ==
  [][(/\ resp' # resp
      /\ resp'.op \in EvaluationTables
      /\ resp'.ok
      /\ get_user_role(resp'.actor) = "user")
     => \A c \in profiles :
          (c.role = "client_admin" /\ c.client = get_user_client_id(resp'.actor))
          => \A q \in resp'.rows : Permitted(c.id, resp'.op, q.cmd, q.row)
    ]_vars

(***************************************************************************)
(* Claims about the case of a domain.                                      *)
(***************************************************************************)
\* C21: domain resolution is exact and blind to letter case.  A domain check
\* of the sign-up form that changes its answer answers "exists" exactly when
\* some organization's domain equals the typed domain up to case; and a
\* company sign-up whose domain equals a bound domain up to case creates no
\* second organization.
C21_DomainCaseInsensitive ==
  [][\A t \in Tabs :
       LET dom == SplitPart(stab[t].email, "@", 2)
           bound == \E d \in domains : Lower(d.domain) = Lower(dom)
       IN /\ (stab[t].pc = "form" /\ stab'[t].exists # stab[t].exists)
             => stab'[t].exists = bound
          /\ (/\ stab[t].pc = "form"
              /\ stab'[t].pc = "done"
              /\ stab'[t].outcome \in {"ok", "error"}
              /\ bound)
             => clients' = clients
    ]_vars

(***************************************************************************)
(* Claims about the rows of area_permissions and the areas of profiles.    *)
(***************************************************************************)
\* C22: in every reachable state there is at most one permission row per
\* (area, principal); a grant for a pair that has a row fails and leaves
\* every row, so that row and its level too, as it was; a grant that
\* succeeds adds the one row asked for.
C22_OnePermissionPerPair ==
  /\ [](\A ap1 \in areaPerms, ap2 \in areaPerms :
          (ap1.area = ap2.area /\ ap1.user = ap2.user) => ap1 = ap2)
  /\ [][(/\ resp'.op = "grantPermission"
         /\ (resp' # resp \/ areaPerms' # areaPerms))
        => \A q \in resp'.rows :
             /\ (\E ap \in areaPerms : ap.area = q.area /\ ap.user = q.user)
                => (~resp'.ok /\ areaPerms' = areaPerms)
             /\ areaPerms' = IF resp'.ok THEN areaPerms \cup {q} ELSE areaPerms
       ]_vars

\* C22, witness: the last request was a grant that the policies admit, for a
\* pair that has a row of another level; it failed and the row is there.
C22_Witness ==
  /\ resp.op = "grantPermission"
  /\ ~resp.ok
  /\ \E q \in resp.rows : \E ap \in areaPerms :
       /\ ap.area = q.area /\ ap.user = q.user
       /\ ap.level # q.level
       /\ AreaPermissionsInsertAllowed(resp.actor, q)


\* C23: in every reachable state a profile with role client_admin has no
\* area: after the first sign-up of a domain, after a direct creation, and
\* after any sequence of edits of role and area.
C23_ClientAdminHasNoArea ==
  \A p \in profiles : p.role = "client_admin" => p.area = NULL

\* C23, witness: the account that started as area admin of area 1 has been
\* promoted to client_admin by an edit, and has no area.
C23_Witness ==
  /\ resp.op = "editUser"
  /\ resp.ok
  /\ \E p \in profiles : /\ p.email = AreaAdminEmail
                         /\ p.role = "client_admin"
                         /\ p.area = NULL

(***************************************************************************)
(* Claims about "Create User Directly".  resp' carries the profile row of  *)
(* the request.                                                            *)
(***************************************************************************)
\* C25: when a client admin or an area admin creates a user directly, for an
\* address that has no account yet, the account exists afterwards and has
\* exactly one profile: in the creator's organization, with the role chosen
\* in the form; also when the domain of the address is bound to no
\* organization.
C25_DirectCreationGivesProfile ==
  [][(/\ resp'.op = "addUser"
      /\ (resp' # resp \/ users' # users)
      /\ get_user_role(resp'.actor) \in {"client_admin", "area_admin"})
     => \A q \in resp'.rows :
          (~\E u \in users : u.email = q.email)
          => \E u \in users' :
               /\ u.email = q.email
               /\ \A p \in profiles' :
                    p.id = u.id => /\ p.client = get_user_client_id(resp'.actor)
                                   /\ p.role = q.role
               /\ Cardinality({p \in profiles' : p.id = u.id}) = 1
    ]_vars

\* C28: in every reachable state a profile with role area_admin has an area
\* and the account holds a permission row with level admin on that area.
C28_AreaAdminHoldsAdminLevel ==
  \A p \in profiles :
    p.role = "area_admin"
    => /\ p.area # NULL
       /\ \E ap \in areaPerms : /\ ap.area = p.area
                                /\ ap.user = p.id
                                /\ ap.level = "admin"

\* C29: in every reachable state the area of a profile, when set, is an area
\* of the profile's organization.
C29_AreaOfOwnOrganization ==
  \A p \in profiles :
    p.area # NULL => \E a \in areas : a.id = p.area /\ a.client = p.client

C26_QuickLinkRedeemable ==
  \A t \in Tabs :
    (/\ itab[t].inv.email = PlaceholderEmail
     /\ itab[t].outcome \notin {"none", "password", "area_required"})
    => /\ itab[t].outcome = "ok"
       /\ \E u \in users : u.id = itab[t].uid /\ u.email # PlaceholderEmail

\* C30: a request of the invitation form is all-or-nothing: when it reports
\* an error the table of invitations is as it was before, and when it reports
\* success the rows it added are one pending invitation per address of the
\* batch, each with a token of its own.
C30_BatchAllOrNothing ==
  [][\A p \in profiles : \A b \in InviteBatches : \A ty \in InvitationTypes :
       \A a \in {x.id : x \in areas} \cup {NULL} :
         createInvitation(p.id, b, ty, a)
         => LET added == invitations' \ invitations
            IN IF resp'.ok
               THEN /\ Cardinality(added) = Len(b)
                    /\ \A k \in 1..Len(b) : \E i \in added : /\ i.email = b[k]
                                                             /\ i.usedAt = NULL
                    /\ \A i, j \in added : i.token = j.token => i = j
               ELSE added = {}
    ]_vars

(***************************************************************************)
(* Claims about the evaluation of the policies.                            *)
(***************************************************************************)
\* C27: deciding access to area_permissions, or to a table whose policies
\* consult area_permissions, terminates: no relation is met again while its
\* own policies are being expanded, area_permissions is entered at most once
\* on the way, and every statement that is begun gets its policies.
C27_PolicyEvaluationTerminates ==
  /\ [](rewrite.pc # "recursion")
  /\ [](\A i, j \in 1..Len(rewrite.active) :
          (rewrite.active[i] = "area_permissions" /\ rewrite.active[j] = "area_permissions")
          => i = j)
  /\ (rewrite.pc = "running") ~> (rewrite.pc = "done")

\* C27, witness: a statement on area_permissions has got its policies; the
\* memberships were looked up by is_user_area_admin.
C27_Witness ==
  /\ rewrite.pc = "done"
  /\ rewrite.rel = "area_permissions"
  /\ "is_user_area_admin" \in rewrite.lookups
=============================================================================
